---- MODULE Spec2Model ----
(***************************************************************************)
(* Model of research_agent.py: the ResearchAgent pipeline (construction,   *)
(* three searches, content preparation, LLM analysis, printing, saving)    *)
(* and the CLI entry point main().                                         *)
(*                                                                         *)
(* Strings are sequences of tokens.  A token is a TLA+ string; the tokens  *)
(* " " and "\n" are whitespace, every other token stands for a run of      *)
(* non-whitespace text.                                                    *)
(***************************************************************************)
EXTENDS Integers, Sequences, FiniteSets, TLC

\* Largest number of hits the Search Provider returns for one query.
MaxResults == 2

----------------------------------------------------------------------------
(* Strings *)

WS == {" ", "\n"}

\* str.strip(): the text between the first and the last non-whitespace token
Strip(s) ==
    LET solid == {i \in 1..Len(s) : s[i] \notin WS}
    IN  IF solid = {} THEN <<>>
        ELSE SubSeq(s, CHOOSE i \in solid : \A j \in solid : i <= j,
                       CHOOSE i \in solid : \A j \in solid : j <= i)

RECURSIVE JoinFrom(_, _, _)
JoinFrom(parts, sep, i) ==
    IF i > Len(parts) THEN <<>>
    ELSE IF i = Len(parts) THEN parts[i]
    ELSE parts[i] \o sep \o JoinFrom(parts, sep, i + 1)

\* "\n".join(parts)
Join(parts) == JoinFrom(parts, <<"\n">>, 1)

\* ", ".join(names)
JoinComma(names) == JoinFrom([i \in 1..Len(names) |-> <<names[i]>>], <<",", " ">>, 1)

\* Python truthiness of an Optional[str]: None and "" are falsy.
None == <<"<None>">>
Truthy(s) == s # None /\ s # <<>>

\* a or b
PyOr(a, b) == IF Truthy(a) THEN a ELSE b

----------------------------------------------------------------------------
(* SearchResult and the Search Provider's responses *)

Fields == {"title", "url", "content", "score"}

\* dict.get(key, default) on a provider item (a function on some of Fields)
Get(item, key, default) == IF key \in DOMAIN item THEN item[key] ELSE default

\* SearchResult(title=..., url=..., content=..., score=...)
SearchResult(item) ==
    [title   |-> Get(item, "title", <<>>),
     url     |-> Get(item, "url", <<>>),
     content |-> Get(item, "content", <<>>),
     score   |-> Get(item, "score", "0.0")]

\* Items the provider may return: one with every field, one with only a
\* (whitespace) title, so that the defaults of .get() are exercised.
FullItem == [title |-> <<"Title">>, url |-> <<"http://a">>,
             content |-> <<"snippet">>, score |-> "0.9"]
BareItem == [title |-> <<" ">>]
Items == {FullItem, BareItem}

RECURSIVE SeqsUpTo(_, _)
SeqsUpTo(S, n) ==
    IF n = 0 THEN {<<>>}
    ELSE LET shorter == SeqsUpTo(S, n - 1)
         IN  shorter \cup {Append(s, x) : s \in {t \in shorter : Len(t) = n - 1}, x \in S}

\* Outcomes of tavily_client.search(...):
\*   ok       a dict with a "results" list of dict items
\*   nokey    a dict without "results"
\*   nondict  a response that is no dict (response.get raises)
\*   baditem  a "results" list whose last element is no dict (item.get raises)
\*   raise    the call itself raises (timeout, rate limit, transport error)
SearchOutcomes ==
    [kind : {"ok"}, items : SeqsUpTo(Items, MaxResults), err : {<<>>}]
      \cup [kind : {"nokey", "nondict"}, items : {<<>>}, err : {<<>>}]
      \cup [kind : {"baditem"}, items : {<<FullItem>>}, err : {<<>>}]
      \cup [kind : {"raise"}, items : {<<>>}, err : {<<"timeout">>}]

NoOutcome == [kind |-> "none", items |-> <<>>, err |-> <<>>]

SearchRaises(o) == o.kind \in {"nondict", "baditem", "raise"}

----------------------------------------------------------------------------
(* ResearchAgent: pure helpers *)

Intents == <<"trend", "problem", "question">>

\* ResearchAgent.__init__ default of the model parameter
DefaultModel == <<"gemini-2.5-flash">>

\* Faulty variant of MissingKeys: "elif" for the second test, so that only
\* the first missing key is reported.
MissingKeys_FirstOnly(tavily_api_key, gemini_api_key) ==
    IF ~Truthy(tavily_api_key) THEN <<"TAVILY_API_KEY">>
    ELSE IF ~Truthy(gemini_api_key) THEN <<"GEMINI_API_KEY">>
    ELSE <<>>

\* _validate_api_keys: the list missing_keys
MissingKeys(tavily_api_key, gemini_api_key) ==
    (IF ~Truthy(tavily_api_key) THEN <<"TAVILY_API_KEY">> ELSE <<>>)
      \o (IF ~Truthy(gemini_api_key) THEN <<"GEMINI_API_KEY">> ELSE <<>>)

\* _validate_api_keys: the message of the ValueError it raises
MissingKeysMessage(missing_keys) ==
    <<"Eksik API anahtarlari: ">> \o JoinComma(missing_keys)
      \o <<". ", "Lutfen .env dosyasina ekleyin veya environment variable olarak tanimlayin.">>

\* _generate_queries
GenerateQueries(topic) ==
    [trend    |-> topic \o <<" ", "latest trends news", " ", "<current_year>">>,
     problem  |-> <<"site:reddit.com", " ">> \o topic
                    \o <<" ", "'struggling with' OR 'hate' OR 'hard to' OR 'problem with'">>,
     question |-> topic \o <<" ", "how to fix OR alternative to OR best solution for">>]

\* Faulty variant of ExecuteSearch: the except block returns the results
\* gathered so far instead of [].
ExecuteSearch_KeepsPartial(outcome) ==
    [i \in 1..Len(outcome.items) |-> SearchResult(outcome.items[i])]

\* _execute_search, given what tavily_client.search did: the try block builds
\* the list item by item, the except block discards it and returns [].
ExecuteSearch(outcome) ==
    IF SearchRaises(outcome) THEN <<>>
    ELSE [i \in 1..Len(outcome.items) |-> SearchResult(outcome.items[i])]

\* The three sections.append calls made for result number i of a bucket
ResultSections(label, i, result) ==
    << <<"\n", label, ToString(i), "] ">> \o result.title,
       <<"Kaynak: ">> \o result.url,
       <<"Icerik: ">> \o result.content \o <<"\n">> >>

RECURSIVE BucketSections(_, _, _)
BucketSections(label, results, i) ==
    IF i > Len(results) THEN <<>>
    ELSE ResultSections(label, i, results[i]) \o BucketSections(label, results, i + 1)

\* _prepare_content_for_analysis
PrepareContentForAnalysis(d) ==
    LET trend    == IF d.trend_results # <<>>
                    THEN << <<"=== TREND VE HABER SONUCLARI ===">> >>
                           \o BucketSections("[Trend ", d.trend_results, 1)
                    ELSE <<>>
        problem  == IF d.problem_results # <<>>
                    THEN << <<"\n", "=== SORUN VE SIKAYET SONUCLARI (Reddit/Forum) ===">> >>
                           \o BucketSections("[Sikayet ", d.problem_results, 1)
                    ELSE <<>>
        question == IF d.question_results # <<>>
                    THEN << <<"\n", "=== SORU VE COZUM ARAMA SONUCLARI ===">> >>
                           \o BucketSections("[Soru ", d.question_results, 1)
                    ELSE <<>>
    IN  Join(trend \o problem \o question)

\* Faulty variant of ContentIsBlank: the test is missing and the LLM is
\* always called.
ContentIsBlank_Never(content) == FALSE

\* research: the test "not content.strip()"
ContentIsBlank(content) == Strip(content) = <<>>

\* research: the fixed message used when there is nothing to analyse
InsufficientData == <<"Uzgunuz, bu konu hakkinda yeterli veri bulunamadi.">>

\* _analyze_with_llm: the prompt handed to generate_content
Prompt(content, topic) ==
    <<"<ANALYSIS_SYSTEM_PROMPT>", "\n", "\n", "---", "\n", "\n", "Arastirilan Konu: ">>
      \o topic \o <<"\n", "\n", "<instructions>", "\n", "\n">> \o content

\* Outcomes of gemini_client.models.generate_content(...):
\*   text    a response whose .text is a string
\*   notext  a response whose .text is None (.strip() raises AttributeError)
\*   raise   the call itself raises (network, quota)
LLMOutcomes ==
    [kind : {"text"}, text : {<<"\n", "## Rapor", " ", "\n">>}, err : {<<>>}]
      \cup [kind : {"notext"}, text : {<<>>},
            err : {<<"'NoneType' object has no attribute 'strip'">>}]
      \cup [kind : {"raise"}, text : {<<>>}, err : {<<"quota exceeded">>, <<>>}]

NoLLMOutcome == [kind |-> "none", text |-> <<>>, err |-> <<>>]

LLMRaises(o) == o.kind \in {"notext", "raise"}

AnalysisErrorPrefix == <<"Analiz sirasinda bir hata olustu: ">>

\* Faulty variant of AnalyzeWithLLM: the error message leaves out str(e).
AnalyzeWithLLM_DropsError(outcome) ==
    IF LLMRaises(outcome) THEN AnalysisErrorPrefix
    ELSE Strip(outcome.text)

\* _analyze_with_llm, given what generate_content did
AnalyzeWithLLM(outcome) ==
    IF LLMRaises(outcome) THEN AnalysisErrorPrefix \o outcome.err
    ELSE Strip(outcome.text)

NoResultsPlaceholder == <<"- Sonuc bulunamadi">>

\* Faulty variant of FormatUrlList: no placeholder for an empty list.
FormatUrlList_NoPlaceholder(results) ==
    Join([i \in 1..Len(results) |->
            <<"- [">> \o results[i].title \o <<"](">> \o results[i].url \o <<")">>])

\* _format_url_list
FormatUrlList(results) ==
    IF results = <<>> THEN NoResultsPlaceholder
    ELSE Join([i \in 1..Len(results) |->
                 <<"- [">> \o results[i].title \o <<"](">> \o results[i].url \o <<")">>])

\* Faulty variant of TotalResults: the question bucket is left out.
TotalResults_OmitsQuestion(d) ==
    Len(d.trend_results) + Len(d.problem_results)

\* The grand total computed by the three report writers
TotalResults(d) ==
    Len(d.trend_results) + Len(d.problem_results) + Len(d.question_results)

\* _save_markdown_report: report_content, by its variable parts
MarkdownReport(d) ==
    [topic |-> d.topic, timestamp |-> d.timestamp, analysis |-> d.analysis,
     trend_count    |-> Len(d.trend_results),
     problem_count  |-> Len(d.problem_results),
     question_count |-> Len(d.question_results),
     total          |-> TotalResults(d),
     trend_links    |-> FormatUrlList(d.trend_results),
     problem_links  |-> FormatUrlList(d.problem_results),
     question_links |-> FormatUrlList(d.question_results)]

\* _save_json_data: json_data
JsonData(d, model) ==
    [topic |-> d.topic, timestamp |-> d.timestamp,
     trend_results    |-> d.trend_results,
     problem_results  |-> d.problem_results,
     question_results |-> d.question_results,
     analysis |-> d.analysis,
     metadata |-> [model_used |-> model, total_results |-> TotalResults(d)]]

\* _print_report: what is printed, by its variable parts
PrintedReport(d) ==
    [topic |-> d.topic, timestamp |-> d.timestamp, analysis |-> d.analysis,
     total |-> TotalResults(d)]

\* main: the except clauses around ResearchAgent() and agent.research(topic),
\* as the exit status each gives
MainExitStatus(excType) ==
    IF excType = "ValueError" THEN 1
    ELSE IF excType = "KeyboardInterrupt" THEN 0
    ELSE 1

\* The interpreter's exit status for an exception that leaves main() uncaught:
\* 1 after the traceback, or death by SIGINT (130) for KeyboardInterrupt.
UncaughtExitStatuses(excType) ==
    IF excType = "KeyboardInterrupt" THEN {1, 130} ELSE {1}

----------------------------------------------------------------------------
(* State *)

VARIABLES
    entry,        \* "cli": the program run through main(); "api": a caller
                  \* that constructs ResearchAgent and calls research() itself
    pc,           \* position of the run
    topic,        \* main's local topic / research's argument
    save_files,   \* research's argument
    agent,        \* the ResearchAgent object's fields
    data,         \* the ResearchData record of the run
    responses,    \* what each intent's tavily_client.search call did
    searchLog,    \* the queries handed to the Search Provider, in order
    llmLog,       \* the prompts handed to the LLM Provider, in order
    llmOutcome,   \* what generate_content did
    writes,       \* how often each field of data has been assigned
    console,      \* the reports printed by _print_report
    mdFile,       \* the documents written by _save_markdown_report
    jsonFile,     \* the records written by _save_json_data
    exc,          \* the exception that left the constructor or research()
    exitStatus    \* status of sys.exit / process end; -1 while running

vars == <<entry, pc, topic, save_files, agent, data, responses, searchLog,
          llmLog, llmOutcome, writes, console, mdFile, jsonFile, exc, exitStatus>>

\* What the user may type at main's prompt
RawInputs == {<<>>, <<" ">>, <<" ", "\n">>, <<" ", "coffee", " ">>}

\* Topics a direct caller may pass to research()
ApiTopics == {<<" ">>, <<"coffee">>}

\* Values of a credential in the environment or as a constructor argument
KeyValues == {None, <<>>, <<"key">>}

Timestamp == <<"<now>">>

\* An attribute of the agent that __init__ has not assigned yet
Unset == <<"<unset>">>

NoAgent ==
    [tavily_api_key |-> Unset, gemini_api_key |-> Unset, model |-> DefaultModel,
     tavily_client |-> FALSE, gemini_client |-> FALSE]

\* ResearchData(topic=..., timestamp=...): the dataclass defaults
ResearchData(t, ts) ==
    [topic |-> t, timestamp |-> ts, trend_results |-> <<>>,
     problem_results |-> <<>>, question_results |-> <<>>, analysis |-> <<>>]

NoWrites == [trend_results |-> 0, problem_results |-> 0, question_results |-> 0,
             analysis |-> 0]

Init ==
    /\ entry \in {"cli", "api"}
    /\ pc = IF entry = "cli" THEN "input" ELSE "construct"
    /\ topic = <<>>
    /\ save_files = TRUE
    /\ agent = NoAgent
    /\ data = ResearchData(<<>>, <<>>)
    /\ responses = [i \in {"trend", "problem", "question"} |-> NoOutcome]
    /\ searchLog = <<>>
    /\ llmLog = <<>>
    /\ llmOutcome = NoLLMOutcome
    /\ writes = NoWrites
    /\ console = <<>>
    /\ mdFile = <<>>
    /\ jsonFile = <<>>
    /\ exc = <<>>
    /\ exitStatus = -1

----------------------------------------------------------------------------
(* Exceptions *)

\* An exception of type t leaves ResearchAgent() or agent.research(): main's
\* except clauses turn it into an exit status; a direct caller receives it.
Raise(t, msg) ==
    /\ exc' = <<[type |-> t, msg |-> msg]>>
    /\ pc' = "done"
    /\ exitStatus' = IF entry = "cli" THEN MainExitStatus(t) ELSE -1

----------------------------------------------------------------------------
(* main *)

\* main: topic = input(...).strip(); an empty topic ends the program with
\* sys.exit(1), before the try block.
Main_Input ==
    /\ pc = "input"
    /\ \E raw \in RawInputs :
         /\ topic' = Strip(raw)
         /\ IF Strip(raw) = <<>>
            THEN pc' = "done" /\ exitStatus' = 1
            ELSE pc' = "construct" /\ exitStatus' = exitStatus
    /\ UNCHANGED <<entry, save_files, agent, data, responses, searchLog,
                   llmLog, llmOutcome, writes, console, mdFile, jsonFile, exc>>

\* main: input() raises (Ctrl-C or end of input at the prompt).  The call is
\* outside the try block, so the exception leaves main uncaught.
Main_InputRaises ==
    /\ pc = "input"
    /\ \E t \in {"KeyboardInterrupt", "EOFError"} :
         /\ exc' = <<[type |-> t, msg |-> <<>>]>>
         /\ exitStatus' \in UncaughtExitStatuses(t)
    /\ pc' = "done"
    /\ UNCHANGED <<entry, topic, save_files, agent, data, responses,
                   searchLog, llmLog, llmOutcome, writes, console, mdFile,
                   jsonFile>>

----------------------------------------------------------------------------
(* ResearchAgent *)

\* __init__: resolve the keys, validate them, create the two clients.
\* main passes no arguments; a direct caller may pass either key.  env is
\* what os.getenv finds for TAVILY_API_KEY and GEMINI_API_KEY.
Construct ==
    /\ pc = "construct"
    /\ \E env \in [{"TAVILY_API_KEY", "GEMINI_API_KEY"} -> KeyValues],
          argT \in (IF entry = "cli" THEN {None} ELSE KeyValues),
          argG \in (IF entry = "cli" THEN {None} ELSE KeyValues) :
         LET tk      == PyOr(argT, env["TAVILY_API_KEY"])
             gk      == PyOr(argG, env["GEMINI_API_KEY"])
             missing == MissingKeys(tk, gk)
         IN  IF missing # <<>>
             THEN /\ agent' = [agent EXCEPT !.tavily_api_key = tk,
                                            !.gemini_api_key = gk]
                  /\ Raise("ValueError", MissingKeysMessage(missing))
             ELSE /\ agent' = [agent EXCEPT !.tavily_api_key = tk,
                                            !.gemini_api_key = gk,
                                            !.tavily_client = TRUE,
                                            !.gemini_client = TRUE]
                  /\ pc' = "research"
                  /\ UNCHANGED <<exc, exitStatus>>
    /\ UNCHANGED <<entry, topic, save_files, data, responses, searchLog,
                   llmLog, llmOutcome, writes, console, mdFile, jsonFile>>

\* research, lines 410-420: create the record and the queries.
\* main calls research(topic); a direct caller chooses topic and save_files.
Research_Start ==
    /\ pc = "research"
    /\ \E t \in (IF entry = "cli" THEN {topic} ELSE ApiTopics),
          sf \in (IF entry = "cli" THEN {TRUE} ELSE BOOLEAN) :
         /\ topic' = t
         /\ save_files' = sf
         /\ data' = ResearchData(t, Timestamp)
    /\ pc' = "search_trend"
    /\ UNCHANGED <<entry, agent, responses, searchLog, llmLog, llmOutcome,
                   writes, console, mdFile, jsonFile, exc, exitStatus>>

\* One "data.<bucket> = self._execute_search(queries[intent], ...)" of research
Search(intent, field, at, next) ==
    /\ pc = at
    /\ agent.tavily_client
    /\ \E o \in SearchOutcomes :
         /\ responses' = [responses EXCEPT ![intent] = o]
         /\ data' = [data EXCEPT ![field] = ExecuteSearch(o)]
    /\ searchLog' = Append(searchLog, [intent |-> intent,
                                       query  |-> GenerateQueries(topic)[intent]])
    /\ writes' = [writes EXCEPT ![field] = @ + 1]
    /\ pc' = next
    /\ UNCHANGED <<entry, topic, save_files, agent, llmLog, llmOutcome,
                   console, mdFile, jsonFile, exc, exitStatus>>

Search_Trend == Search("trend", "trend_results", "search_trend", "search_problem")

\* Faulty variant of Search_Problem: the analysis follows at once and the
\* question search is skipped.
Search_Problem_SkipsQuestion ==
    Search("problem", "problem_results", "search_problem", "analyze")

Search_Problem ==
    Search("problem", "problem_results", "search_problem", "search_question")

Search_Question ==
    Search("question", "question_results", "search_question", "analyze")

\* The user presses Ctrl-C while a search call is in flight: KeyboardInterrupt
\* is no Exception, so _execute_search does not catch it.
Interrupt_Search ==
    /\ pc \in {"search_trend", "search_problem", "search_question"}
    /\ LET intent == IF pc = "search_trend" THEN "trend"
                     ELSE IF pc = "search_problem" THEN "problem" ELSE "question"
       IN  searchLog' = Append(searchLog, [intent |-> intent,
                                           query  |-> GenerateQueries(topic)[intent]])
    /\ Raise("KeyboardInterrupt", <<>>)
    /\ UNCHANGED <<entry, topic, save_files, agent, data, responses, llmLog,
                   llmOutcome, writes, console, mdFile, jsonFile>>

\* Faulty variant of Analyze: _analyze_with_llm has no except block, so a
\* failure of the LLM call leaves research().
Analyze_NoCatch ==
    /\ pc = "analyze"
    /\ \E content \in {PrepareContentForAnalysis(data)} :
           IF ContentIsBlank(content)
           THEN /\ data' = [data EXCEPT !.analysis = InsufficientData]
                /\ writes' = [writes EXCEPT !.analysis = @ + 1]
                /\ pc' = "print"
                /\ UNCHANGED <<llmLog, llmOutcome, exc, exitStatus>>
           ELSE /\ agent.gemini_client
                /\ llmLog' = Append(llmLog, [model  |-> agent.model,
                                             prompt |-> Prompt(content, topic)])
                /\ \E o \in LLMOutcomes :
                     /\ llmOutcome' = o
                     /\ IF LLMRaises(o)
                        THEN /\ Raise("Exception", o.err)
                             /\ UNCHANGED <<data, writes>>
                        ELSE /\ data' = [data EXCEPT !.analysis = Strip(o.text)]
                             /\ writes' = [writes EXCEPT !.analysis = @ + 1]
                             /\ pc' = "print"
                             /\ UNCHANGED <<exc, exitStatus>>
    /\ UNCHANGED <<entry, topic, save_files, agent, responses, searchLog,
                   console, mdFile, jsonFile>>

\* research, lines 437-446: prepare the content and set data.analysis, with
\* the LLM only if the content is not blank.
Analyze ==
    /\ pc = "analyze"
    /\ \E content \in {PrepareContentForAnalysis(data)} :
           IF ContentIsBlank(content)
           THEN /\ data' = [data EXCEPT !.analysis = InsufficientData]
                /\ UNCHANGED <<llmLog, llmOutcome>>
           ELSE /\ agent.gemini_client
                /\ \E o \in LLMOutcomes :
                     /\ llmOutcome' = o
                     /\ data' = [data EXCEPT !.analysis = AnalyzeWithLLM(o)]
                /\ llmLog' = Append(llmLog, [model  |-> agent.model,
                                             prompt |-> Prompt(content, topic)])
    /\ writes' = [writes EXCEPT !.analysis = @ + 1]
    /\ pc' = "print"
    /\ UNCHANGED <<entry, topic, save_files, agent, responses, searchLog,
                   console, mdFile, jsonFile, exc, exitStatus>>

\* Ctrl-C while the LLM call is in flight.
Interrupt_LLM ==
    /\ pc = "analyze"
    /\ \E content \in {PrepareContentForAnalysis(data)} :
           /\ ~ContentIsBlank(content)
           /\ llmLog' = Append(llmLog, [model  |-> agent.model,
                                        prompt |-> Prompt(content, topic)])
    /\ Raise("KeyboardInterrupt", <<>>)
    /\ UNCHANGED <<entry, topic, save_files, agent, data, responses,
                   searchLog, llmOutcome, writes, console, mdFile, jsonFile>>

\* research, line 449: self._print_report(data)
Print_Report ==
    /\ pc = "print"
    /\ console' = Append(console, PrintedReport(data))
    /\ pc' = IF save_files THEN "save_md" ELSE "finish"
    /\ UNCHANGED <<entry, topic, save_files, agent, data, responses,
                   searchLog, llmLog, llmOutcome, writes, mdFile, jsonFile, exc,
                   exitStatus>>

\* research, line 454: _save_markdown_report; open()/write() may fail.
Save_Markdown ==
    /\ pc = "save_md"
    /\ \/ /\ mdFile' = Append(mdFile, MarkdownReport(data))
          /\ pc' = "save_json"
          /\ UNCHANGED <<exc, exitStatus>>
       \/ /\ Raise("OSError", <<"cannot write report">>)
          /\ UNCHANGED mdFile
    /\ UNCHANGED <<entry, topic, save_files, agent, data, responses,
                   searchLog, llmLog, llmOutcome, writes, console, jsonFile>>

\* research, line 455: _save_json_data; open()/json.dump() may fail.
Save_Json ==
    /\ pc = "save_json"
    /\ \/ /\ jsonFile' = Append(jsonFile, JsonData(data, agent.model))
          /\ pc' = "finish"
          /\ UNCHANGED <<exc, exitStatus>>
       \/ /\ Raise("OSError", <<"cannot write data">>)
          /\ UNCHANGED jsonFile
    /\ UNCHANGED <<entry, topic, save_files, agent, data, responses,
                   searchLog, llmLog, llmOutcome, writes, console, mdFile>>

\* research returns data; main then runs off its end (exit status 0).
Research_Return ==
    /\ pc = "finish"
    /\ pc' = "done"
    /\ exitStatus' = IF entry = "cli" THEN 0 ELSE -1
    /\ UNCHANGED <<entry, topic, save_files, agent, data, responses,
                   searchLog, llmLog, llmOutcome, writes, console, mdFile,
                   jsonFile, exc>>

Next ==
    \/ Main_Input
    \/ Main_InputRaises
    \/ Construct
    \/ Research_Start
    \/ Search_Trend
    \/ Search_Problem
    \/ Search_Question
    \/ Interrupt_Search
    \/ Analyze
    \/ Interrupt_LLM
    \/ Print_Report
    \/ Save_Markdown
    \/ Save_Json
    \/ Research_Return

Spec == Init /\ [][Next]_vars

----------------------------------------------------------------------------
(* Properties *)

Started == data.timestamp # <<>>

Cancelled == exc # <<>> /\ exc[1].type = "KeyboardInterrupt"

Buckets == <<data.trend_results, data.problem_results, data.question_results>>

BucketOf(intent) ==
    IF intent = "trend" THEN data.trend_results
    ELSE IF intent = "problem" THEN data.problem_results
    ELSE data.question_results

WritesOf(intent) ==
    IF intent = "trend" THEN writes.trend_results
    ELSE IF intent = "problem" THEN writes.problem_results
    ELSE writes.question_results

IntentSet == {"trend", "problem", "question"}

AllBucketsEmpty == \A i \in IntentSet : BucketOf(i) = <<>>

AggregationDone == \A i \in IntentSet : WritesOf(i) = 1

\* sub occurs in s
Contains(s, sub) ==
    \E i \in 0..(Len(s) - Len(sub)) : SubSeq(s, i + 1, i + Len(sub)) = sub

\* The lines of a text: str.split("\n")
RECURSIVE SplitLines(_, _)
SplitLines(s, cur) ==
    IF s = <<>> THEN <<cur>>
    ELSE IF Head(s) = "\n" THEN <<cur>> \o SplitLines(Tail(s), <<>>)
    ELSE SplitLines(Tail(s), Append(cur, Head(s)))

----------------------------------------------------------------------------
(* C1 *)

\* What a run that was not cancelled by the user has at its end: the report
\* printed from the record, the analysis set once to one of the three kinds
\* of text, and no provider failure in the exception (if any) that left
\* research(): only a failed file write can leave it.
RunEndedWithReport ==
    /\ Len(console) = 1
    /\ console[1].analysis = data.analysis
    /\ writes.analysis = 1
    /\ \/ data.analysis = InsufficientData /\ llmOutcome = NoLLMOutcome
       \/ llmOutcome.kind = "text" /\ data.analysis = Strip(llmOutcome.text)
       \/ /\ LLMRaises(llmOutcome)
          /\ data.analysis = AnalysisErrorPrefix \o llmOutcome.err
    /\ exc # <<>> => exc[1].type = "OSError"
    /\ (entry = "cli" /\ exc = <<>>) => exitStatus = 0

\* The position of a run in the pipeline, as a number that every step raises
PcRank ==
    CASE pc = "input"           -> 0
      [] pc = "construct"       -> 1
      [] pc = "research"        -> 2
      [] pc = "search_trend"    -> 3
      [] pc = "search_problem"  -> 4
      [] pc = "search_question" -> 5
      [] pc = "analyze"         -> 6
      [] pc = "print"           -> 7
      [] pc = "save_md"         -> 8
      [] pc = "save_json"       -> 9
      [] pc = "finish"          -> 10
      [] pc = "done"            -> 11

\* C1: once research() has started, whatever the three search calls and the
\* LLM call do, the run ends (it can always take a step until it has ended,
\* and every step takes it further down the pipeline); unless the user
\* cancelled it, no provider error has reached the caller and the report was
\* produced from a record whose analysis field is set.
C1_RunAlwaysEndsWithReport ==
    /\ []((Started /\ pc # "done") => ENABLED Next)
    /\ [][PcRank' > PcRank]_vars
    /\ []((pc = "done" /\ Started /\ ~Cancelled) => RunEndedWithReport)

\* A run in which a search call and the LLM call both failed has ended,
\* with its report.
C1_Witness ==
    /\ pc = "done"
    /\ exc = <<>>
    /\ responses["trend"].kind = "raise"
    /\ responses["problem"].kind = "ok" /\ Len(data.problem_results) = 2
    /\ responses["question"].kind = "nondict"
    /\ llmOutcome.kind = "raise"
    /\ Len(console) = 1

----------------------------------------------------------------------------
(* C2 *)

\* C2: if all three buckets are empty after aggregation, the prepared content
\* is blank, the LLM is never invoked and the analysis is the fixed
\* insufficient-data message; the LLM is invoked, exactly once, only in runs
\* where some bucket is non-empty.
C2_LLMOnlyWithContent ==
    /\ Len(llmLog) <= 1
    /\ llmLog # <<>> => (AggregationDone /\ ~AllBucketsEmpty)
    /\ (AggregationDone /\ AllBucketsEmpty) =>
         /\ Strip(PrepareContentForAnalysis(data)) = <<>>
         /\ llmLog = <<>>
         /\ llmOutcome = NoLLMOutcome
         /\ writes.analysis = 1 => data.analysis = InsufficientData
    /\ (writes.analysis = 1 /\ ~AllBucketsEmpty) => Len(llmLog) = 1
    /\ (pc = "print" /\ llmLog # <<>>) =>
         llmLog[1].prompt = Prompt(PrepareContentForAnalysis(data), topic)

\* Every search failed or found nothing, and the run has ended.
C2_Witness ==
    /\ pc = "done"
    /\ exc = <<>>
    /\ responses["trend"].kind = "raise"
    /\ responses["problem"].kind = "ok"
    /\ responses["question"].kind = "baditem"
    /\ data.analysis = InsufficientData
    /\ llmLog = <<>>

----------------------------------------------------------------------------
(* C3 *)

\* The bucket holds the items of the response, field for field, with the
\* defaults of SearchResult for the fields an item lacks.
HoldsResponse(bucket, items) ==
    /\ Len(bucket) = Len(items)
    /\ \A i \in 1..Len(items) :
         /\ \A f \in DOMAIN items[i] : bucket[i][f] = items[i][f]
         /\ \A f \in {"title", "url", "content"} \ DOMAIN items[i] :
              bucket[i][f] = <<>>

SearchPcs == <<"search_trend", "search_problem", "search_question">>

\* C3: a failed search call leaves its own bucket empty, does not end the
\* run, does not keep the later searches from being issued, and leaves the
\* other buckets with what their own calls returned.
C3_SearchFailureIsLocal ==
    /\ \A i \in IntentSet :
         WritesOf(i) = 1 =>
           IF SearchRaises(responses[i]) THEN BucketOf(i) = <<>>
           ELSE HoldsResponse(BucketOf(i), responses[i].items)
    /\ \A i \in IntentSet :
         (SearchRaises(responses[i]) /\ exc # <<>>) =>
            exc[1].type \in {"KeyboardInterrupt", "OSError"}
    /\ \A k \in 1..3 :
         (WritesOf(Intents[k]) = 1 /\ k < 3 /\ pc # SearchPcs[k + 1])
            => Len(searchLog) > k
    /\ \A k \in 1..Len(searchLog) :
         /\ searchLog[k].intent = Intents[k]
         /\ searchLog[k].query = GenerateQueries(topic)[Intents[k]]
    /\ (pc = "done" /\ Started /\ ~Cancelled) => Len(searchLog) = 3

\* The problem search failed; the trend and question buckets hold their hits.
C3_Witness ==
    /\ pc = "done"
    /\ exc = <<>>
    /\ responses["problem"].kind = "baditem"
    /\ data.problem_results = <<>>
    /\ Len(data.trend_results) = 2
    /\ Len(data.question_results) = 2
    /\ data.trend_results[1].title # data.trend_results[2].title
    /\ Len(searchLog) = 3

----------------------------------------------------------------------------
(* C4 *)

\* C4: if the LLM call raises, the analysis is a non-empty string containing
\* the text of the failure, the failure does not leave research(), and the
\* step leaves the three buckets as they were.
C4_LLMFailureBecomesAnalysis ==
    /\ [](LLMRaises(llmOutcome) =>
            /\ data.analysis # <<>>
            /\ Contains(data.analysis, llmOutcome.err)
            /\ exc # <<>> => exc[1].type = "OSError")
    /\ [][LLMRaises(llmOutcome') =>
            /\ Buckets' = Buckets
            /\ exc' # <<>> => exc'[1].type = "OSError"
            /\ (pc = "analyze" => pc' = "print")]_vars

\* The LLM call failed with a quota error and the run went on to its end.
C4_Witness ==
    /\ pc = "done"
    /\ exc = <<>>
    /\ llmOutcome.kind = "raise"
    /\ llmOutcome.err = <<"quota exceeded">>
    /\ Len(data.trend_results) = 2
    /\ mdFile # <<>>

----------------------------------------------------------------------------
(* C5 *)

\* C5: a run whose topic is empty or whitespace-only never reaches a call of
\* the Search Provider or of the LLM Provider.
C5_BlankTopicMakesNoCall ==
    Strip(topic) = <<>> => (searchLog = <<>> /\ llmLog = <<>>)

----------------------------------------------------------------------------
(* C6 *)

\* A credential that __init__ resolved to None or ""
Absent(key) == key \in {None, <<>>}

Range(s) == {s[i] : i \in 1..Len(s)}

\* C6: if either credential is absent, construction fails with a ValueError
\* whose message names every missing credential (and no other), no client is
\* created, no stage of the pipeline runs and no provider call is made;
\* provider calls are made only by an agent with both credentials.
C6_MissingCredentialStopsConstruction ==
    /\ (Absent(agent.tavily_api_key) \/ Absent(agent.gemini_api_key)) =>
         /\ pc = "done"
         /\ exc # <<>>
         /\ exc[1].type = "ValueError"
         /\ Absent(agent.tavily_api_key) <=> "TAVILY_API_KEY" \in Range(exc[1].msg)
         /\ Absent(agent.gemini_api_key) <=> "GEMINI_API_KEY" \in Range(exc[1].msg)
         /\ ~agent.tavily_client /\ ~agent.gemini_client
         /\ ~Started
         /\ searchLog = <<>> /\ llmLog = <<>>
         /\ entry = "cli" => exitStatus = 1
    /\ (searchLog # <<>> \/ llmLog # <<>> \/ Started) =>
         /\ Truthy(agent.tavily_api_key) /\ agent.tavily_api_key # Unset
         /\ Truthy(agent.gemini_api_key) /\ agent.gemini_api_key # Unset
         /\ agent.tavily_client /\ agent.gemini_client

\* Construction failed with both credentials missing.
C6_Witness ==
    /\ pc = "done"
    /\ Absent(agent.tavily_api_key)
    /\ Absent(agent.gemini_api_key)
    /\ exc # <<>>
    /\ exc[1].type = "ValueError"

----------------------------------------------------------------------------
(* C7 *)

BucketLengthSum ==
    Len(data.trend_results) + Len(data.problem_results) + Len(data.question_results)

\* C7: the total of the document's statistics table and total_results of the
\* data form's metadata both equal the sum of the three bucket lengths.
C7_TotalsAreBucketSums ==
    /\ \A k \in 1..Len(mdFile) :
         /\ mdFile[k].total = BucketLengthSum
         /\ mdFile[k].total =
              mdFile[k].trend_count + mdFile[k].problem_count + mdFile[k].question_count
    /\ \A k \in 1..Len(jsonFile) :
         jsonFile[k].metadata.total_results = BucketLengthSum

\* Both files were written for buckets of different sizes, one of them empty.
C7_Witness ==
    /\ pc = "done"
    /\ Len(mdFile) = 1 /\ Len(jsonFile) = 1
    /\ Len(data.trend_results) = 2
    /\ data.problem_results = <<>>
    /\ Len(data.question_results) = 1
    /\ mdFile[1].total = 3

----------------------------------------------------------------------------
(* C8 *)

\* The link section of a bucket: the placeholder exactly for an empty bucket,
\* otherwise one line "- [title](url)" per result, in bucket order.
LinkSectionShows(section, bucket) ==
    /\ section = NoResultsPlaceholder <=> bucket = <<>>
    /\ section # <<>>
    /\ bucket # <<>> =>
         LET lines == SplitLines(section, <<>>)
         IN  /\ Len(lines) = Len(bucket)
             /\ \A i \in 1..Len(bucket) :
                  lines[i] = <<"- [">> \o bucket[i].title \o <<"](">>
                               \o bucket[i].url \o <<")">>

\* C8: in the document, each intent's link section shows the placeholder if
\* and only if the bucket is empty, and otherwise one link per result in
\* bucket order.
C8_LinkSections ==
    \A k \in 1..Len(mdFile) :
      /\ LinkSectionShows(mdFile[k].trend_links, data.trend_results)
      /\ LinkSectionShows(mdFile[k].problem_links, data.problem_results)
      /\ LinkSectionShows(mdFile[k].question_links, data.question_results)

\* A document with a placeholder section and a section of two distinct links.
C8_Witness ==
    /\ Len(mdFile) = 1
    /\ data.problem_results = <<>>
    /\ mdFile[1].problem_links = NoResultsPlaceholder
    /\ Len(data.trend_results) = 2
    /\ data.trend_results[1] # data.trend_results[2]
    /\ Len(data.question_results) = 1

----------------------------------------------------------------------------
(* C9 *)

\* C9: main() ends with a non-zero status for an empty topic, with 0 when the
\* research cycle completes, with a non-zero status on a configuration error
\* or an unexpected failure, and with 0 whenever the user cancels.
C9_ExitStatus ==
    (entry = "cli" /\ pc = "done") =>
      /\ (exc = <<>> /\ topic = <<>>) => exitStatus # 0
      /\ (exc = <<>> /\ topic # <<>>) => exitStatus = 0
      /\ (exc # <<>> /\ exc[1].type # "KeyboardInterrupt") => exitStatus # 0
      /\ (exc # <<>> /\ exc[1].type = "KeyboardInterrupt") => exitStatus = 0

----------------------------------------------------------------------------
(* C10 *)

\* C10: the record starts with empty buckets and an empty analysis; each
\* bucket and the analysis are written at most once, all of them exactly once
\* by the time the report is printed; the analysis is written only after all
\* three search calls have completed; once it is written, no later step
\* changes the record.
C10_RecordPhases ==
    /\ [](/\ \A i \in IntentSet : WritesOf(i) <= 1
          /\ writes.analysis <= 1
          /\ pc = "search_trend" =>
               (data = ResearchData(topic, Timestamp) /\ writes = NoWrites)
          /\ \A i \in IntentSet : WritesOf(i) = 0 => BucketOf(i) = <<>>
          /\ writes.analysis = 0 => data.analysis = <<>>
          /\ writes.analysis = 1 =>
               /\ AggregationDone
               /\ \A i \in IntentSet : responses[i] # NoOutcome
               /\ Len(searchLog) = 3
          /\ pc \in {"print", "save_md", "save_json", "finish"} =>
               (writes.analysis = 1 /\ AggregationDone))
    /\ [][writes.analysis = 1 => (data' = data /\ writes' = writes)]_vars

\* A complete run: every field written once, report printed, files saved.
C10_Witness ==
    /\ pc = "done"
    /\ exc = <<>>
    /\ AggregationDone
    /\ writes.analysis = 1
    /\ Len(console) = 1 /\ Len(mdFile) = 1 /\ Len(jsonFile) = 1
    /\ ~AllBucketsEmpty

====
